---- MODULE Spec2Model ----
(***************************************************************************)
(* A model of rlua's string handle (src/string.rs): the accessors          *)
(* as_bytes_with_nul, as_bytes, to_str, as_ref and eq, run step by step    *)
(* against a Lua state made of an evaluation stack, a registry and a heap  *)
(* of immutable objects.                                                   *)
(***************************************************************************)
EXTENDS Integers, Sequences, FiniteSets, TLC

VARIABLES
    stack,      \* the Lua evaluation stack: a sequence of object ids
    cap,        \* slots the stack has room for (what lua_checkstack grows)
    heap,       \* object id -> [type, bytes]; a freed cell has type "free"
    registry,   \* registry slot -> object id, NoObj when the slot is free
    handles,    \* handle id -> [st, slot, obj]: the String values of the host
    doubleFree, \* a registry slot was unreferenced while already free
    pc,         \* position inside the running accessor, "idle" between calls
    frames,     \* the accessors in progress, outermost first
    op,         \* the accessor the host called last
    recv,       \* the handle the host called it on
    arg,        \* eq's other operand
    lhs,        \* eq's left operand, once computed
    base,       \* the stack top the guard recorded on entry
    data,       \* local `data` of as_bytes_with_nul: the pointer read
    size,       \* local `size` of as_bytes_with_nul
    nulled,     \* local `nulled` of as_bytes
    rv,         \* the value the callee that just returned handed back
    fatal,      \* a fatal internal assertion is unwinding
    ret,        \* what the last accessor call returned to the host
    entry,      \* the stack as it was when the host called the accessor
    view,       \* a byte view the host kept from an earlier call, with what it
                \* showed and how deep the stack was when it was kept
    probe       \* what as_bytes showed for a handle before to_str failed on it

vars == <<stack, cap, heap, registry, handles, doubleFree, pc, frames, op, recv,
          arg, lhs, base, data, size, nulled, rv, fatal, ret, entry, view, probe>>

-----------------------------------------------------------------------------
(* Bounds of the model. *)

MaxLen == 2
MaxStack == 2
MaxHandles == 2
MaxObjs == 2
InitCap == 1

-----------------------------------------------------------------------------
(* Values. *)

NoObj == 0
Null == 0
Poison == 0 - 1

Alphabet == {0, 88, 169, 195, 255}

RECURSIVE SeqsUpTo(_)
SeqsUpTo(n) ==
    IF n = 0 THEN {<<>>}
    ELSE LET shorter == SeqsUpTo(n - 1)
         IN shorter \cup {Append(s, b) : s \in {t \in shorter : Len(t) = n - 1}, b \in Alphabet}

Examples ==
    { <<116, 101, 115, 116, 255>>,      \* "test\xff"
      <<116, 101, 115, 116, 0, 88>>,    \* "test\0X"
      <<226, 130, 172>>,                \* U+20AC
      <<240, 159, 152, 128>>,           \* U+1F600
      <<237, 160, 128>>,                \* a surrogate, not text
      <<224, 128, 128>>,                \* an overlong form, not text
      <<244, 144, 128, 128>>,           \* past U+10FFFF, not text
      <<226, 130>> }                    \* a cut-off sequence, not text

Contents == SeqsUpTo(MaxLen) \cup Examples

SmallContents == {<<88>>, <<0, 255>>}

Front(s) == SubSeq(s, 1, Len(s) - 1)

Range(s) == {s[i] : i \in DOMAIN s}

Max(a, b) == IF a >= b THEN a ELSE b

ObjIds == 1..MaxObjs
Slots == 1..MaxHandles
HandleIds == 1..MaxHandles

FreeCell == [type |-> "free", bytes |-> <<>>]
StringObj(c) == [type |-> "string", bytes |-> c]
TableObj == [type |-> "table", bytes |-> <<>>]

NoHandle == [st |-> "unused", slot |-> 0, obj |-> NoObj, src |-> 0]
Dropped == [st |-> "dropped", slot |-> 0, obj |-> NoObj, src |-> 0]
NoRet == [kind |-> "none"]
NoArg == [kind |-> "none"]
NoSlice == [kind |-> "bytes", ptr |-> Null, len |-> 0]
NoView == [h |-> 0, ptr |-> Null, len |-> 0, snap |-> <<>>, at |-> 0]
NoProbe == [h |-> 0, bytes |-> <<>>, failed |-> FALSE]

-----------------------------------------------------------------------------
(* The Lua state as the accessors see it. *)

lua_gettop == Len(stack)

AbsIndex(idx) == IF idx < 0 THEN Len(stack) + 1 + idx ELSE idx

ValueAt(idx) ==
    IF AbsIndex(idx) \in 1..Len(stack) THEN stack[AbsIndex(idx)] ELSE NoObj

lua_type(idx) ==
    IF ValueAt(idx) = NoObj THEN "none" ELSE heap[ValueAt(idx)].type

\* The pointer and length of the string at idx; NULL, and the length left as
\* it was initialised, when the value is no string.
lua_tolstring(idx) ==
    IF lua_type(idx) = "string"
    THEN [ptr |-> ValueAt(idx), size |-> Len(heap[ValueAt(idx)].bytes)]
    ELSE [ptr |-> Null, size |-> 0]

lua_pop(n) == SubSeq(stack, 1, Len(stack) - n)

\* The bytes Lua keeps at a string's address: the content, then one zero.
Memory(ptr) ==
    IF ptr \in ObjIds /\ heap[ptr].type = "string"
    THEN heap[ptr].bytes \o <<0>>
    ELSE <<>>

\* What reading a slice yields now; a byte outside a live string is Poison.
Deref(s) ==
    [i \in 1..s.len |-> IF i <= Len(Memory(s.ptr)) THEN Memory(s.ptr)[i] ELSE Poison]

FreeObjs == {o \in ObjIds : heap[o].type = "free"}
NewObj == CHOOSE o \in FreeObjs : \A p \in FreeObjs : o <= p

FreeSlots == {s \in Slots : registry[s] = NoObj}
NewSlot == CHOOSE s \in FreeSlots : \A t \in FreeSlots : s <= t

Unused == {h \in HandleIds : handles[h].st = "unused"}
NewHandle == CHOOSE h \in Unused : \A g \in Unused : h <= g
Alive == {h \in HandleIds : handles[h].st = "alive"}

Reclaimable(o) ==
    /\ heap[o].type # "free"
    /\ o \notin Range(registry)
    /\ o \notin Range(stack)

\* The handle the running as_bytes_with_nul reads: eq's other operand while
\* eq evaluates its right side, the receiver otherwise.
Self == IF "eq_rhs" \in Range(frames) THEN arg.h ELSE recv

-----------------------------------------------------------------------------
(* str::from_utf8, as the standard library validates: by the first byte's    *)
(* width and the ranges allowed to the bytes that follow it.                 *)

IsCont(b) == b >= 128 /\ b <= 191

Utf8Width(b) ==
    IF b < 128 THEN 1
    ELSE IF b >= 194 /\ b <= 223 THEN 2
    ELSE IF b >= 224 /\ b <= 239 THEN 3
    ELSE IF b >= 240 /\ b <= 244 THEN 4
    ELSE 0

SecondOk(first, second) ==
    CASE first = 224 -> second >= 160 /\ second <= 191
      [] first = 237 -> second >= 128 /\ second <= 159
      [] first = 240 -> second >= 144 /\ second <= 191
      [] first = 244 -> second >= 128 /\ second <= 143
      [] OTHER -> IsCont(second)

RECURSIVE Utf8ValidFrom(_, _)
Utf8ValidFrom(b, i) ==
    IF i > Len(b) THEN TRUE
    ELSE LET w == Utf8Width(b[i])
         IN /\ w # 0
            /\ i + w - 1 <= Len(b)
            /\ (w >= 2 => SecondOk(b[i], b[i + 1]))
            /\ (w >= 3 => IsCont(b[i + 2]))
            /\ (w >= 4 => IsCont(b[i + 3]))
            /\ Utf8ValidFrom(b, i + w)

from_utf8(b) == Utf8ValidFrom(b, 1)

-----------------------------------------------------------------------------
(* The accessors of src/string.rs. *)

\* stack_guard(lua.state, 0, ...): the number the guard is opened with.
GuardSlots == 0

CheckAmountNone == 1 - 1

\* check_stack(lua.state, 1)
CheckAmount == 1

TypeOkAny == TRUE

\* ffi::lua_type(lua.state, -1) == ffi::LUA_TSTRING
TypeOk == lua_type(-1) = "string"

ReadIndexBelow == 0 - 2

\* ffi::lua_tolstring(lua.state, -1, &mut size)
ReadIndex == 0 - 1

PopCountTwo == 1 + 1

\* ffi::lua_pop(lua.state, 1)
PopCount == 1

from_raw_parts_short(d, sz) == [kind |-> "bytes", ptr |-> d, len |-> sz]

RECURSIVE StrLenFrom(_, _)
StrLenFrom(m, i) == IF i > Len(m) \/ m[i] = 0 THEN i - 1 ELSE StrLenFrom(m, i + 1)

from_raw_parts_cstr(d, sz) ==
    [kind |-> "bytes", ptr |-> d, len |-> StrLenFrom(Memory(d), 1) + 1]

\* slice::from_raw_parts(data as *const u8, size + 1)
from_raw_parts(d, sz) == [kind |-> "bytes", ptr |-> d, len |-> sz + 1]

\* &nulled[..nulled.len() - 1]; the subtraction panics on an empty slice.
as_bytes_slice(whole) ==
    IF whole.len = 0 THEN [kind |-> "panic"]
    ELSE [kind |-> "bytes", ptr |-> whole.ptr, len |-> whole.len - 1]

ConversionError ==
    [kind |-> "err", from |-> "string", to |-> "&str", message |-> "Some"]

to_str_unchecked(s) == [kind |-> "str", ptr |-> s.ptr, len |-> s.len]

to_str_with_nul(s) ==
    IF from_utf8(Deref(s))
    THEN [kind |-> "str", ptr |-> s.ptr, len |-> s.len + 1]
    ELSE ConversionError

\* str::from_utf8(self.as_bytes()).map_err(|e| Error::FromLuaConversionError {..})
to_str_result(s) ==
    IF from_utf8(Deref(s))
    THEN [kind |-> "str", ptr |-> s.ptr, len |-> s.len]
    ELSE ConversionError

eq_result_prefix(l, r) == Len(l) <= Len(r) /\ l = SubSeq(r, 1, Len(l))

\* self.as_bytes() == other.as_ref()
eq_result(l, r) == l = r

String_copy(h) == [slot |-> handles[h].slot, registry |-> registry]

\* LuaRef::clone: one more registry entry for the same value.
LuaRef_clone(h) ==
    [slot |-> NewSlot,
     registry |-> [registry EXCEPT ![NewSlot] = registry[handles[h].slot]]]

\* #[derive(Clone)] on String: the clone of the LuaRef it wraps.
String_clone(h) == LuaRef_clone(h)

-----------------------------------------------------------------------------
(* What the host does between accessor calls. *)

Idle == pc = "idle"

\* Anything the host does other than calling an accessor uses up the value
\* the last call returned.
Forget ==
    /\ ret' = NoRet
    /\ arg' = NoArg
    /\ op' = "none"
    /\ recv' = 0
    /\ nulled' = NoSlice
    /\ probe' = NoProbe

Locals == <<pc, frames, lhs, base, data, size, rv, fatal, entry>>

\* Other binding code pushes a new string: check_stack, then the push.
PushString(c) ==
    /\ Idle
    /\ Len(stack) < MaxStack
    /\ FreeObjs # {}
    /\ heap' = [heap EXCEPT ![NewObj] = StringObj(c)]
    /\ stack' = Append(stack, NewObj)
    /\ cap' = Max(cap, Len(stack) + 1)
    /\ Forget
    /\ UNCHANGED <<registry, handles, doubleFree, view, Locals>>

\* Other binding code pushes a value that is no string.
PushTable ==
    /\ Idle
    /\ Len(stack) < MaxStack
    /\ FreeObjs # {}
    /\ heap' = [heap EXCEPT ![NewObj] = TableObj]
    /\ stack' = Append(stack, NewObj)
    /\ cap' = Max(cap, Len(stack) + 1)
    /\ Forget
    /\ UNCHANGED <<registry, handles, doubleFree, view, Locals>>

Pop ==
    /\ Idle
    /\ Len(stack) > 0
    /\ stack' = Front(stack)
    /\ Forget
    /\ UNCHANGED <<cap, heap, registry, handles, doubleFree, view, Locals>>

\* String(ref): the value on top of the stack is registered and the
\* reference wrapped; the field is pub(crate), so nothing here checks that
\* the value is a string.
Wrap ==
    /\ Idle
    /\ Len(stack) > 0
    /\ Unused # {}
    /\ FreeSlots # {}
    /\ registry' = [registry EXCEPT ![NewSlot] = stack[Len(stack)]]
    /\ handles' = [handles EXCEPT ![NewHandle] =
                      [st |-> "alive", slot |-> NewSlot, obj |-> stack[Len(stack)], src |-> 0]]
    /\ stack' = Front(stack)
    /\ Forget
    /\ UNCHANGED <<cap, heap, doubleFree, view, Locals>>

Clone(h) ==
    /\ Idle
    /\ h \in Alive
    /\ Unused # {}
    /\ FreeSlots # {}
    /\ registry' = String_clone(h).registry
    /\ handles' = [handles EXCEPT ![NewHandle] =
                      [st |-> "alive", slot |-> String_clone(h).slot, obj |-> handles[h].obj,
                       src |-> h]]
    /\ Forget
    /\ UNCHANGED <<stack, cap, heap, doubleFree, view, Locals>>

\* The handle goes out of scope: its registry entry is unreferenced. The
\* borrow rules end every view taken from the handle first.
Drop(h) ==
    /\ Idle
    /\ h \in Alive
    /\ handles' = [handles EXCEPT ![h] = Dropped]
    /\ IF registry[handles[h].slot] = NoObj
       THEN doubleFree' = TRUE /\ UNCHANGED registry
       ELSE registry' = [registry EXCEPT ![handles[h].slot] = NoObj] /\ UNCHANGED doubleFree
    /\ view' = IF view.h = h THEN NoView ELSE view
    /\ Forget
    /\ UNCHANGED <<stack, cap, heap, Locals>>

\* Lua's collector frees a value nothing reaches.
Collect(o) ==
    /\ Idle
    /\ Reclaimable(o)
    /\ heap' = [heap EXCEPT ![o] = FreeCell]
    /\ Forget
    /\ UNCHANGED <<stack, cap, registry, handles, doubleFree, view, Locals>>

\* The host keeps the bytes the last call returned.
KeepView ==
    /\ Idle
    /\ ret.kind = "bytes"
    /\ view' = [h |-> recv, ptr |-> ret.ptr, len |-> ret.len, snap |-> Deref(ret),
                at |-> Len(stack)]
    /\ Forget
    /\ UNCHANGED <<stack, cap, heap, registry, handles, doubleFree, Locals>>

-----------------------------------------------------------------------------
(* The calls. *)

Begin(name, h, a, chain) ==
    /\ Idle
    /\ h \in Alive
    /\ op' = name
    /\ recv' = h
    /\ arg' = a
    /\ frames' = chain
    /\ entry' = stack
    /\ ret' = NoRet
    /\ pc' = "enter"
    /\ nulled' = NoSlice
    /\ UNCHANGED <<stack, cap, heap, registry, handles, doubleFree, lhs, base,
                   data, size, rv, fatal, view, probe>>

Call_as_bytes_with_nul(h) ==
    Begin("as_bytes_with_nul", h, NoArg, <<"as_bytes_with_nul">>)

Call_as_bytes(h) ==
    Begin("as_bytes", h, NoArg, <<"as_bytes", "as_bytes_with_nul">>)

Call_to_str(h) ==
    Begin("to_str", h, NoArg, <<"to_str", "as_bytes", "as_bytes_with_nul">>)

Call_as_ref(h) ==
    Begin("as_ref", h, NoArg, <<"as_ref", "as_bytes", "as_bytes_with_nul">>)

Call_eq(h, a) ==
    Begin("eq", h, a, <<"eq_lhs", "as_bytes", "as_bytes_with_nul">>)

-----------------------------------------------------------------------------
(* as_bytes_with_nul, one statement at a time. *)

Host == <<heap, registry, handles, doubleFree, view, probe>>
Called == <<op, recv, arg, ret, entry>>
Inner == <<Host, Called, nulled>>

\* stack_guard opens: the top is recorded and room for the slots it was
\* given is ensured.
GuardOpen ==
    /\ pc = "enter"
    /\ base' = lua_gettop
    /\ IF Len(stack) + GuardSlots <= MaxStack
       THEN /\ cap' = Max(cap, Len(stack) + GuardSlots)
            /\ pc' = "body"
            /\ UNCHANGED fatal
       ELSE /\ pc' = "aborted"
            /\ fatal' = TRUE
            /\ UNCHANGED cap
    /\ UNCHANGED <<stack, frames, lhs, data, size, rv, Inner>>

\* check_stack: lua_checkstack grows the stack or fails, and failing is fatal.
CheckStack ==
    /\ pc = "body"
    /\ IF Len(stack) + CheckAmount <= MaxStack
       THEN /\ cap' = Max(cap, Len(stack) + CheckAmount)
            /\ pc' = "checked"
            /\ UNCHANGED fatal
       ELSE /\ pc' = "unwind"
            /\ fatal' = TRUE
            /\ UNCHANGED cap
    /\ UNCHANGED <<stack, frames, lhs, base, data, size, rv, Inner>>

\* lua.push_ref: the registered value goes on top; the entry stays.
PushRef ==
    /\ pc = "checked"
    /\ stack' = Append(stack, registry[handles[Self].slot])
    /\ pc' = "pushed"
    /\ UNCHANGED <<cap, frames, lhs, base, data, size, rv, fatal, Inner>>

\* lua_internal_assert!(.., lua_type(-1) == LUA_TSTRING, ..)
TypeAssert ==
    /\ pc = "pushed"
    /\ IF TypeOk
       THEN pc' = "asserted" /\ UNCHANGED fatal
       ELSE pc' = "unwind" /\ fatal' = TRUE
    /\ UNCHANGED <<stack, cap, frames, lhs, base, data, size, rv, Inner>>

ToLString ==
    /\ pc = "asserted"
    /\ data' = lua_tolstring(ReadIndex).ptr
    /\ size' = lua_tolstring(ReadIndex).size
    /\ pc' = "read"
    /\ UNCHANGED <<stack, cap, frames, lhs, base, rv, fatal, Inner>>

LuaPop ==
    /\ pc = "read"
    /\ stack' = lua_pop(PopCount)
    /\ pc' = "popped"
    /\ UNCHANGED <<cap, frames, lhs, base, data, size, rv, fatal, Inner>>

MakeSlice ==
    /\ pc = "popped"
    /\ rv' = from_raw_parts(data, size)
    /\ pc' = "sliced"
    /\ UNCHANGED <<stack, cap, frames, lhs, base, data, size, fatal, Inner>>

\* stack_guard closes, on the body's return and on a failure passing through:
\* fewer values than on entry is fatal, more are popped.
GuardClose ==
    /\ pc \in {"sliced", "unwind"}
    /\ data' = Null
    /\ size' = 0
    /\ IF lua_gettop < base
       THEN /\ pc' = "aborted"
            /\ fatal' = TRUE
            /\ UNCHANGED <<stack, frames>>
       ELSE /\ stack' = SubSeq(stack, 1, base)
            /\ UNCHANGED fatal
            /\ IF fatal
               THEN pc' = "aborted" /\ UNCHANGED frames
               ELSE pc' = "ret" /\ frames' = Front(frames)
    /\ UNCHANGED <<cap, lhs, base, rv, Inner>>

-----------------------------------------------------------------------------
(* The accessors built on it. *)

Returning(name) == pc = "ret" /\ frames # <<>> /\ frames[Len(frames)] = name

as_bytes ==
    /\ Returning("as_bytes")
    /\ nulled' = rv
    /\ rv' = as_bytes_slice(rv)
    /\ IF as_bytes_slice(rv).kind = "panic"
       THEN pc' = "aborted" /\ fatal' = TRUE /\ UNCHANGED frames
       ELSE frames' = Front(frames) /\ UNCHANGED <<pc, fatal>>
    /\ UNCHANGED <<stack, cap, lhs, base, data, size, Host, Called>>

as_ref ==
    /\ Returning("as_ref")
    /\ frames' = Front(frames)
    /\ UNCHANGED <<stack, cap, pc, lhs, base, data, size, rv, fatal, Inner>>

to_str ==
    /\ Returning("to_str")
    /\ rv' = to_str_result(rv)
    /\ frames' = Front(frames)
    /\ UNCHANGED <<stack, cap, pc, lhs, base, data, size, fatal, Inner>>

\* eq has its left side; a byte sequence, a text or a buffer on the right
\* is its own bytes.
eq_bytes ==
    /\ Returning("eq_lhs")
    /\ arg.kind = "raw"
    /\ rv' = [kind |-> "bool", val |-> eq_result(Deref(rv), arg.val)]
    /\ frames' = Front(frames)
    /\ UNCHANGED <<stack, cap, pc, lhs, base, data, size, fatal, Inner>>

\* eq has its left side; another handle on the right is read by as_ref.
eq_handle ==
    /\ Returning("eq_lhs")
    /\ arg.kind = "handle"
    /\ lhs' = rv
    /\ rv' = NoRet
    /\ frames' = Front(frames) \o <<"eq_rhs", "as_ref", "as_bytes", "as_bytes_with_nul">>
    /\ pc' = "enter"
    /\ UNCHANGED <<stack, cap, base, data, size, fatal, Inner>>

eq_handles ==
    /\ Returning("eq_rhs")
    /\ rv' = [kind |-> "bool", val |-> eq_result(Deref(lhs), Deref(rv))]
    /\ lhs' = NoSlice
    /\ frames' = Front(frames)
    /\ UNCHANGED <<stack, cap, pc, base, data, size, fatal, Inner>>

\* The call is over: the host has its value.
Return ==
    /\ pc = "ret"
    /\ frames = <<>>
    /\ ret' = rv
    /\ rv' = NoRet
    /\ pc' = "idle"
    /\ probe' =
         IF op = "as_bytes" /\ rv.kind = "bytes" /\ ~(probe.h = recv /\ probe.failed)
         THEN [h |-> recv, bytes |-> Deref(rv), failed |-> FALSE]
         ELSE IF op = "to_str" /\ rv.kind = "err" /\ probe.h = recv
         THEN [probe EXCEPT !.failed = TRUE]
         ELSE probe
    /\ UNCHANGED <<stack, cap, heap, registry, handles, doubleFree, view, frames,
                   op, recv, arg, lhs, base, data, size, nulled, fatal, entry>>

-----------------------------------------------------------------------------
(* Operands for eq: byte sequences equal to the receiver's content, and ones *)
(* that differ from it in the last byte or in length.                        *)

ChangeLast(c) ==
    IF c = <<>> THEN <<88>>
    ELSE [c EXCEPT ![Len(c)] = IF c[Len(c)] = 88 THEN 255 ELSE 88]

Near(c) == {c, ChangeLast(c), Front(c), Append(c, 0)}

Content(h) == heap[handles[h].obj].bytes

EqArgs(h) ==
    {[kind |-> "raw", val |-> c] : c \in Near(Content(h))}
        \cup {[kind |-> "handle", h |-> g] : g \in Alive}

-----------------------------------------------------------------------------------------------------------------------------------------------------
(* The stack discipline: the host pushes strings and other values, pops,    *)
(* wraps what is on top in a handle, and calls every accessor.              *)

Quiet ==
    /\ doubleFree = FALSE
    /\ pc = "idle"
    /\ frames = <<>>
    /\ op = "none"
    /\ recv = 0
    /\ arg = NoArg
    /\ lhs = NoSlice
    /\ base = 0
    /\ data = Null
    /\ size = 0
    /\ nulled = NoSlice
    /\ rv = NoRet
    /\ fatal = FALSE
    /\ ret = NoRet
    /\ view = NoView
    /\ probe = NoProbe

Init ==
    /\ stack = <<>>
    /\ entry = <<>>
    /\ cap = InitCap
    /\ heap = [o \in ObjIds |-> FreeCell]
    /\ registry = [s \in Slots |-> NoObj]
    /\ handles = [h \in HandleIds |-> NoHandle]
    /\ Quiet

Body ==
    \/ GuardOpen
    \/ CheckStack
    \/ PushRef
    \/ TypeAssert
    \/ ToLString
    \/ LuaPop
    \/ MakeSlice
    \/ GuardClose

Steps ==
    \/ Body
    \/ as_bytes
    \/ as_ref
    \/ to_str
    \/ eq_bytes
    \/ eq_handle
    \/ eq_handles
    \/ Return

Calls ==
    \/ \E h \in Alive : Call_as_bytes_with_nul(h)
    \/ \E h \in Alive : Call_as_bytes(h)
    \/ \E h \in Alive : Call_to_str(h)
    \/ \E h \in Alive : Call_as_ref(h)
    \/ \E h \in Alive : \E a \in EqArgs(h) : Call_eq(h, a)

Next ==
    \/ \E c \in SmallContents : PushString(c)
    \/ PushTable
    \/ Pop
    \/ Wrap
    \/ Calls
    \/ Steps

Spec == Init /\ [][Next]_vars

-----------------------------------------------------------------------------
(* References and views: the host also clones and drops handles and keeps   *)
(* the bytes a call returned, and Lua collects what nothing reaches.        *)

NextRefs ==
    \/ \E c \in SmallContents : PushString(c)
    \/ Pop
    \/ Wrap
    \/ \E h \in Alive : Clone(h)
    \/ \E h \in Alive : Drop(h)
    \/ \E o \in ObjIds : Collect(o)
    \/ KeepView
    \/ \E h \in Alive : Call_as_bytes(h)
    \/ Body
    \/ as_bytes
    \/ Return

SpecRefs == Init /\ [][NextRefs]_vars

-----------------------------------------------------------------------------
(* The accessors alone, over every content: two handles, each on a string   *)
(* of its own, the second's content near the first's.                       *)

InitBytes ==
    /\ stack = <<>>
    /\ entry = <<>>
    /\ cap = InitCap
    /\ \E c \in Contents : \E d \in Near(c) :
          heap = [o \in ObjIds |-> IF o = 1 THEN StringObj(c)
                                   ELSE IF o = 2 THEN StringObj(d)
                                   ELSE FreeCell]
    /\ registry = [s \in Slots |-> IF s <= 2 THEN s ELSE NoObj]
    /\ handles = [h \in HandleIds |->
                    IF h <= 2 THEN [st |-> "alive", slot |-> h, obj |-> h, src |-> 0]
                    ELSE NoHandle]
    /\ Quiet

NextBytes == Calls \/ Steps

SpecBytes == InitBytes /\ [][NextBytes]_vars

-----------------------------------------------------------------------------
(* Text, said without the validator: a byte sequence is text when it is the *)
(* encodings of Unicode scalar values, one after the other.                 *)

IsScalar(cp) == cp >= 0 /\ cp <= 1114111 /\ ~(cp >= 55296 /\ cp <= 57343)

Encode(cp) ==
    IF cp < 128 THEN <<cp>>
    ELSE IF cp < 2048 THEN <<192 + (cp \div 64), 128 + (cp % 64)>>
    ELSE IF cp < 65536
    THEN <<224 + (cp \div 4096), 128 + ((cp \div 64) % 64), 128 + (cp % 64)>>
    ELSE <<240 + (cp \div 262144), 128 + ((cp \div 4096) % 64),
           128 + ((cp \div 64) % 64), 128 + (cp % 64)>>

Decode(ch) ==
    CASE Len(ch) = 1 -> ch[1]
      [] Len(ch) = 2 -> (ch[1] - 192) * 64 + (ch[2] - 128)
      [] Len(ch) = 3 -> (ch[1] - 224) * 4096 + (ch[2] - 128) * 64 + (ch[3] - 128)
      [] OTHER -> (ch[1] - 240) * 262144 + (ch[2] - 128) * 4096
                      + (ch[3] - 128) * 64 + (ch[4] - 128)

RECURSIVE IsTextFrom(_, _)
IsTextFrom(b, i) ==
    \/ i > Len(b)
    \/ \E n \in 1..4 :
          /\ i + n - 1 <= Len(b)
          /\ IsScalar(Decode(SubSeq(b, i, i + n - 1)))
          /\ Encode(Decode(SubSeq(b, i, i + n - 1))) = SubSeq(b, i, i + n - 1)
          /\ IsTextFrom(b, i + n)

IsText(b) == IsTextFrom(b, 1)

Returned == pc = "idle" /\ ret # NoRet

OtherBytes(a) == IF a.kind = "raw" THEN a.val ELSE Content(a.h)

-----------------------------------------------------------------------------
(* The claims about the bytes, checked under SpecBytes. *)

\* C2: as_bytes() is as_bytes_with_nul() without its final byte, so its
\* length is the length Lua reports; as_bytes_with_nul() is never empty and
\* its last byte is the zero byte.
C2_TerminatorExclusion ==
    /\ (Returned /\ op = "as_bytes_with_nul") =>
          /\ ret.len >= 1
          /\ ret.len = Len(Content(recv)) + 1
          /\ Deref(ret)[ret.len] = 0
    /\ (Returned /\ op = "as_bytes") =>
          /\ nulled.len >= 1
          /\ Deref(nulled)[nulled.len] = 0
          /\ ret.len = nulled.len - 1
          /\ ret.len = Len(Content(recv))
          /\ Deref(ret) = Front(Deref(nulled))

C2_Witness ==
    /\ Returned
    /\ op = "as_bytes"
    /\ Content(recv) = <<>>
    /\ ret.len = 0
    /\ nulled.len = 1

\* C3: a string whose content holds zero bytes comes back from as_bytes()
\* whole: every byte, at its full length, and without the terminator.
C3_EmbeddedZeros ==
    (Returned /\ op \in {"as_bytes", "as_ref"} /\ 0 \in Range(Content(recv))) =>
        /\ ret.kind = "bytes"
        /\ ret.len = Len(Content(recv))
        /\ Deref(ret) = Content(recv)

C3_Witness ==
    /\ Returned
    /\ op = "as_bytes"
    /\ Content(recv) = <<116, 101, 115, 116, 0, 88>>
    /\ Deref(ret) = <<116, 101, 115, 116, 0, 88>>

\* C4 as it was claimed: to_str() on bytes that are not text returns
\* FromLuaConversionError with source kind "string", target kind "text" and a
\* message, fails for no other reason, and leaves as_bytes() what it was.
C4_Original ==
    /\ (Returned /\ op = "to_str" /\ ~IsText(Content(recv))) =>
          ret = [kind |-> "err", from |-> "string", to |-> "text", message |-> "Some"]
    /\ (Returned /\ ret.kind = "err") =>
          /\ op = "to_str"
          /\ ~IsText(Content(recv))
          /\ stack = entry
    /\ (Returned /\ op = "as_bytes" /\ probe.h = recv /\ probe.failed) =>
          /\ ret.kind = "bytes"
          /\ Deref(ret) = probe.bytes
          /\ Deref(ret) = Content(recv)

\* C4 as amended: the error carries source kind "string", target kind "&str"
\* and a message; to_str() fails only on bytes that are not text, and the
\* failure changes nothing: the stack is as it was, and as_bytes() on the
\* same handle returns after it the very bytes it returned before it.
C4_ConversionError ==
    /\ (Returned /\ op = "to_str" /\ ~IsText(Content(recv))) =>
          ret = [kind |-> "err", from |-> "string", to |-> "&str", message |-> "Some"]
    /\ (Returned /\ ret.kind = "err") =>
          /\ op = "to_str"
          /\ ~IsText(Content(recv))
          /\ stack = entry
    /\ (Returned /\ op = "as_bytes" /\ probe.h = recv /\ probe.failed) =>
          /\ ret.kind = "bytes"
          /\ Deref(ret) = probe.bytes
          /\ Deref(ret) = Content(recv)

C4_Witness ==
    /\ Returned
    /\ op = "as_bytes"
    /\ probe.h = recv
    /\ probe.failed
    /\ probe.bytes = <<116, 101, 115, 116, 255>>
    /\ Deref(ret) = <<116, 101, 115, 116, 255>>

\* C5: on bytes that are text to_str() succeeds, and what it returns is the
\* very bytes as_bytes() returns: same place, same length, no terminator.
C5_TextRoundTrip ==
    (Returned /\ op = "to_str" /\ IsText(Content(recv))) =>
        /\ ret.kind = "str"
        /\ ret.ptr = nulled.ptr
        /\ ret.len = nulled.len - 1
        /\ ret.ptr = handles[recv].obj
        /\ Deref(ret) = Content(recv)

C5_Witness ==
    /\ Returned
    /\ op = "to_str"
    /\ ret.kind = "str"
    /\ Deref(ret) = <<240, 159, 152, 128>>

\* C6: s == t exactly when the bytes of s, terminator left out, are the
\* bytes of t, whatever t is: a byte sequence or another handle.
C6_ContentEquality ==
    (Returned /\ op = "eq") =>
        /\ ret.kind = "bool"
        /\ ret.val = (Content(recv) = OtherBytes(arg))

C6_Witness ==
    /\ Returned
    /\ op = "eq"
    /\ arg.kind = "raw"
    /\ ret.val = FALSE
    /\ Len(arg.val) = Len(Content(recv))
    /\ Len(arg.val) >= 2
    /\ Front(arg.val) = Front(Content(recv))

-----------------------------------------------------------------------------
(* The claims about the stack, checked under Spec. *)

InCall == pc \notin {"idle", "aborted"}

InGuard == pc \in {"body", "checked", "pushed", "asserted", "read", "popped",
                   "sliced", "unwind"}

Referent(h) == heap[handles[h].obj]

\* C1: whenever as_bytes_with_nul is left, by its return or by a fatal
\* failure passing through the guard, and so whenever as_bytes, to_str,
\* as_ref or eq return, the stack is as deep as it was at the call.
C1_StackBalance ==
    (pc \in {"ret", "aborted"} \/ Returned) =>
        /\ Len(stack) = Len(entry)
        /\ Len(stack) = base

C1_Witness ==
    /\ pc = "aborted"
    /\ fatal
    /\ Referent(Self).type = "table"
    /\ Len(entry) >= 1
    /\ Len(stack) = Len(entry)

\* C9: the type of the pushed value is tested after the push and before the
\* read; the read is of a string only, and a call on a value that is no
\* string ends in the fatal channel with nothing read and nothing returned.
C9_TypeAssertion ==
    /\ pc \in {"asserted", "read"} => lua_type(0 - 1) = "string"
    /\ pc \in {"read", "popped", "sliced"} =>
          /\ data # Null
          /\ heap[data].type = "string"
          /\ data = handles[Self].obj
    /\ (InCall \/ pc = "aborted") /\ Referent(Self).type # "string" =>
          /\ pc \in {"enter", "body", "checked", "pushed", "unwind", "aborted"}
          /\ data = Null
          /\ rv.kind # "bytes" \/ "eq_rhs" \in Range(frames)
          /\ ret = NoRet
    /\ Returned => Referent(recv).type = "string"
    /\ pc = "aborted" => ret = NoRet

C9_Witness ==
    /\ pc = "aborted"
    /\ Referent(Self).type = "table"
    /\ "eq_rhs" \in Range(frames)
    /\ lhs.len >= 1
    /\ data = Null

\* C10 as it was claimed: the guard is opened reserving one slot, so room for
\* one more value is there from the moment it opens; inside it the depth
\* stays between base and base + 1 and within the capacity, and what lies at
\* or below base is untouched.
C10_Original ==
    /\ InGuard => cap >= base + 1
    /\ InGuard => Len(stack) >= base /\ Len(stack) <= base + 1
    /\ InCall => Len(stack) <= cap
    /\ InCall /\ pc # "enter" => SubSeq(stack, 1, base) = entry

\* C10 as amended: the guard is opened with no slot reserved; room for one
\* more value is ensured by check_stack(1), inside the guard and before the
\* push, and failing it is fatal. One value is pushed and one popped: the
\* depth stays between base and base + 1 and within the capacity, never
\* under base, and what lies at or below base is untouched.
C10_BoundedStackUse ==
    /\ pc = "body" => cap >= base + GuardSlots
    /\ pc = "checked" => cap >= Len(stack) + 1
    /\ InGuard => Len(stack) >= base /\ Len(stack) <= base + 1
    /\ pc \in {"pushed", "asserted", "read"} => Len(stack) = base + 1
    /\ pc \in {"popped", "sliced"} => Len(stack) = base
    /\ InCall \/ pc = "aborted" => Len(stack) <= cap
    /\ (InCall /\ pc # "enter") \/ pc = "aborted" =>
          /\ Len(stack) >= base
          /\ SubSeq(stack, 1, base) = entry
    /\ pc = "unwind" /\ Len(stack) = base => Len(stack) + 1 > MaxStack
    /\ pc = "aborted" => fatal /\ ret = NoRet

C10_Witness ==
    /\ pc = "pushed"
    /\ base >= 1
    /\ Len(stack) = base + 1
    /\ cap = Len(stack)
    /\ SubSeq(stack, 1, base) = entry

-----------------------------------------------------------------------------
(* The claims about references and views, checked under SpecRefs. *)

\* C7: the bytes a call returned stay where they are and what they are,
\* whatever the host pushes, pops or calls afterwards and whatever Lua
\* collects, for as long as the handle they came from is alive.
C7_ViewOutlivesGuard ==
    view.h # 0 =>
        /\ handles[view.h].st = "alive"
        /\ view.ptr \in ObjIds
        /\ heap[view.ptr].type = "string"
        /\ Deref(view) = view.snap
        /\ Poison \notin Range(view.snap)

C7_Witness ==
    /\ view.h # 0
    /\ Returned
    /\ Len(stack) > view.at
    /\ view.ptr \notin Range(stack)
    /\ Deref(view) = view.snap

\* C8: a clone shares the value of the handle it was cloned from; every
\* registration is released once, by the drop of its handle; no drop frees
\* an entry twice or the entry of another handle; the value cannot be
\* reclaimed while a clone is alive and can once the last is dropped.
C8_CloneAndRelease ==
    /\ doubleFree = FALSE
    /\ \A h \in Alive :
          /\ registry[handles[h].slot] = handles[h].obj
          /\ Referent(h).type # "free"
          /\ ~Reclaimable(handles[h].obj)
          /\ handles[h].src \in Alive => handles[handles[h].src].obj = handles[h].obj
    /\ \A g, h \in Alive : g # h => handles[g].slot # handles[h].slot
    /\ Cardinality({s \in Slots : registry[s] # NoObj}) = Cardinality(Alive)
    /\ \A o \in ObjIds :
          (/\ heap[o].type # "free"
           /\ o \notin Range(stack)
           /\ \A h \in Alive : handles[h].obj # o) => Reclaimable(o)

C8_Witness ==
    /\ handles[1].st = "dropped"
    /\ handles[2].st = "alive"
    /\ handles[2].src = 1
    /\ Returned
    /\ recv = 2
    /\ ret.kind = "bytes"

====
